---- MODULE Spec2Model ----
(***************************************************************************)
(* Model of the code-review agent tools of src/tools.ts:                   *)
(*   getFileChangesInDirectory, generateCommitMessage, writeMarkdownReport,*)
(*   performCodeReview and their helpers.                                  *)
(*                                                                         *)
(* Strings are sequences of atoms.  Every string whose characters the code *)
(* inspects or counts (paths, exclusion patterns, commit messages) is a    *)
(* sequence of one-character atoms; literals that are only concatenated    *)
(* (report headings, error prefixes) are kept as a single atom.            *)
(***************************************************************************)
EXTENDS Integers, Sequences, FiniteSets, TLC

\* ------------------------------------------------------------------
\* JavaScript string primitives
\* ------------------------------------------------------------------

\* String.prototype.includes
Includes(s, sub) ==
  \E i \in 0..(Len(s) - Len(sub)) : SubSeq(s, i + 1, i + Len(sub)) = sub

\* String.prototype.startsWith
StartsWith(s, sub) ==
  Len(sub) <= Len(s) /\ SubSeq(s, 1, Len(sub)) = sub

\* String.prototype.endsWith
EndsWith(s, sub) ==
  Len(sub) <= Len(s) /\ SubSeq(s, Len(s) - Len(sub) + 1, Len(s)) = sub

\* String.prototype.substring(0, n)
Substring0(s, n) ==
  SubSeq(s, 1, IF n < Len(s) THEN n ELSE Len(s))

Digit(d) ==
  CASE d = 0 -> "0" [] d = 1 -> "1" [] d = 2 -> "2" [] d = 3 -> "3"
    [] d = 4 -> "4" [] d = 5 -> "5" [] d = 6 -> "6" [] d = 7 -> "7"
    [] d = 8 -> "8" [] d = 9 -> "9"

RECURSIVE ToDecimal(_)
\* template-literal conversion of a non-negative integer: `${n}`
ToDecimal(n) ==
  IF n < 10 THEN <<Digit(n)>> ELSE ToDecimal(n \div 10) \o <<Digit(n % 10)>>

RECURSIVE Join(_, _)
\* Array.prototype.join(sep) over an array of strings
Join(parts, sep) ==
  IF Len(parts) = 0 THEN <<>>
  ELSE IF Len(parts) = 1 THEN parts[1]
  ELSE parts[1] \o sep \o Join(Tail(parts), sep)

\* ------------------------------------------------------------------
\* node:path (posix)
\* ------------------------------------------------------------------

\* index one past the last character that is not a trailing "/"
PathEnd(p) ==
  IF \A i \in 1..Len(p) : p[i] = "/" THEN 0
  ELSE CHOOSE e \in 1..Len(p) : p[e] # "/" /\ \A j \in (e + 1)..Len(p) : p[j] = "/"

\* index of the first character of the last path segment
PathStartPart(p) ==
  LET e == PathEnd(p)
      slashes == {i \in 1..e : p[i] = "/"}
  IN  IF slashes = {} THEN 1
      ELSE (CHOOSE i \in slashes : \A j \in slashes : j <= i) + 1

\* path.extname: from the last "." of the last segment to its end; empty
\* when there is no ".", when the "." is the segment's first character, or
\* when the segment is ".."
extname(p) ==
  LET e    == PathEnd(p)
      st   == PathStartPart(p)
      dots == {i \in st..e : p[i] = "."}
      startDot == CHOOSE i \in dots : \A j \in dots : j <= i
  IN  IF e = 0 \/ dots = {} THEN <<>>
      ELSE IF startDot = st THEN <<>>
      ELSE IF startDot = e /\ startDot = st + 1 /\ p[st] = "." THEN <<>>
      ELSE SubSeq(p, startDot, e)

\* path.basename(p, ext): the last segment, without a trailing ext
basename(p, ext) ==
  LET base == SubSeq(p, PathStartPart(p), PathEnd(p))
  IN  IF ext # <<>> /\ Len(ext) < Len(base) /\ EndsWith(base, ext)
      THEN SubSeq(base, 1, Len(base) - Len(ext))
      ELSE base

\* ------------------------------------------------------------------
\* String literals of src/tools.ts
\* ------------------------------------------------------------------

X_dist == <<"d","i","s","t">>
X_bun_lock == <<"b","u","n",".","l","o","c","k">>
X_node_modules == <<"n","o","d","e","_","m","o","d","u","l","e","s">>
X_git == <<".","g","i","t">>
X_coverage == <<"c","o","v","e","r","a","g","e">>
L_test_dot == <<".","t","e","s","t",".">>
L_spec_dot == <<".","s","p","e","c",".">>
L_README == <<"R","E","A","D","M","E">>
L_docs_slash == <<"d","o","c","s","/">>
L_fix == <<"f","i","x">>
L_bug == <<"b","u","g">>
L_test == <<"t","e","s","t">>
L_spec == <<"s","p","e","c">>
L_ts == <<".","t","s">>
L_tsx == <<".","t","s","x">>
L_update == <<"u","p","d","a","t","e"," ">>
L_with == <<" ","w","i","t","h"," ">>
L_file == <<" ","f","i","l","e">>
L_s == <<"s">>
L_changed == <<" ","c","h","a","n","g","e","d">>
L_update_docs_tests == <<"u","p","d","a","t","e"," ","d","o","c","u","m","e","n","t","a","t","i","o","n"," ","a","n","d"," ","t","e","s","t","s">>
L_no_changes == <<"c","h","o","r","e",":"," ","n","o"," ","c","h","a","n","g","e","s"," ","d","e","t","e","c","t","e","d">>
L_ellipsis == <<".",".",".">>
L_colon == <<":"," ">>
T_feat == <<"f","e","a","t">>
T_fix == <<"f","i","x">>
T_docs == <<"d","o","c","s">>
T_style == <<"s","t","y","l","e">>
T_refactor == <<"r","e","f","a","c","t","o","r">>
T_test == <<"t","e","s","t">>
T_chore == <<"c","h","o","r","e">>

\* the built-in exclusion set
EXCLUDED_FILES == {X_dist, X_bun_lock, X_node_modules, X_git, X_coverage}

\* DEFAULT_OPTIONS
maxConcurrentDiffs == 10
maxCommitMessageLength == 72

\* z.enum of commit types, with the characters of each
CommitTypeChars ==
  [feat |-> T_feat, fix |-> T_fix, docs |-> T_docs, style |-> T_style,
   refactor |-> T_refactor, test |-> T_test, chore |-> T_chore]

CommitTypes == DOMAIN CommitTypeChars

\* ------------------------------------------------------------------
\* Pure helpers of src/tools.ts
\* ------------------------------------------------------------------

\* shouldExcludeFile with the containment test left out
shouldExcludeFile_PrefixOnly(filePath, additionalExcludes) ==
  \E exclude \in EXCLUDED_FILES \cup additionalExcludes : StartsWith(filePath, exclude)

\* shouldExcludeFile(filePath, additionalExcludes)
shouldExcludeFile(filePath, additionalExcludes) ==
  LET allExcludes == EXCLUDED_FILES \cup additionalExcludes
  IN  \E exclude \in allExcludes :
        Includes(filePath, exclude) \/ StartsWith(filePath, exclude)

\* detectCommitType(changes)
detectCommitType(changes) ==
  LET fileExtensions == [i \in DOMAIN changes |-> extname(changes[i].file)]
  IN  IF \E i \in DOMAIN fileExtensions :
           \E testExt \in {L_test_dot, L_spec_dot} : Includes(fileExtensions[i], testExt)
      THEN "test"
      ELSE IF \E i \in DOMAIN changes :
                Includes(changes[i].file, L_README) \/ Includes(changes[i].file, L_docs_slash)
      THEN "docs"
      ELSE IF \E i \in DOMAIN changes :
                Includes(changes[i].file, L_fix) \/ Includes(changes[i].file, L_bug)
      THEN "fix"
      ELSE "feat"

IsMainFile(change) ==
  /\ ~Includes(change.file, L_test)
  /\ ~Includes(change.file, L_spec)
  /\ ~Includes(change.file, L_README)

\* generateMessageBody(changes)
generateMessageBody(changes) ==
  LET mainFiles == SelectSeq(changes, IsMainFile)
  IN  IF Len(mainFiles) = 0 THEN L_update_docs_tests
      ELSE LET primaryFile == mainFiles[1]
               fileName == basename(primaryFile.file, extname(primaryFile.file))
           IN  L_update \o fileName \o L_with \o ToDecimal(Len(changes))
                 \o L_file \o (IF Len(changes) > 1 THEN L_s ELSE <<>>) \o L_changed

\* the composition `${finalCommitType}${scope ? `(${scope})` : ''}: ${messageBody}`
\* (an optional argument is a sequence of zero or one value)
composeCommitMessage(changes, commitTypeArg, scopeArg) ==
  LET commitType == IF commitTypeArg = <<>> THEN "feat" ELSE commitTypeArg[1]
      fileDiffs == [i \in DOMAIN changes |->
                      [file |-> changes[i].file,
                       diff |-> IF "diff" \in DOMAIN changes[i] THEN changes[i].diff ELSE <<>>,
                       changes |-> IF "changes" \in DOMAIN changes[i] THEN changes[i].changes ELSE 0]]
      detected == detectCommitType(fileDiffs)
      finalCommitType == IF commitType # "" THEN commitType ELSE detected
      messageBody == generateMessageBody(fileDiffs)
      scopePart == IF scopeArg # <<>> /\ scopeArg[1] # <<>>
                   THEN <<"(">> \o scopeArg[1] \o <<")">> ELSE <<>>
  IN  CommitTypeChars[finalCommitType] \o scopePart \o L_colon \o messageBody

\* a truncation that forgets to reserve room for the ellipsis
truncateCommitMessage_NoReserve(commitMessage) ==
  IF Len(commitMessage) > maxCommitMessageLength
  THEN Substring0(commitMessage, maxCommitMessageLength) \o L_ellipsis
  ELSE commitMessage

\* "Truncate if too long"
truncateCommitMessage(commitMessage) ==
  IF Len(commitMessage) > maxCommitMessageLength
  THEN Substring0(commitMessage, maxCommitMessageLength - 3) \o L_ellipsis
  ELSE commitMessage

\* generateCommitMessage({changes, commitType, scope})
generateCommitMessage(changes, commitTypeArg, scopeArg) ==
  IF Len(changes) = 0 THEN L_no_changes
  ELSE truncateCommitMessage(composeCommitMessage(changes, commitTypeArg, scopeArg))

\* canned suggestion strings
S_typescript == <<"Consider adding TypeScript type annotations if missing">>
S_coverage == <<"Verify test coverage for the implemented changes">>
S_smaller == <<"Consider breaking this into smaller, focused commits">>
S_fallback == <<"Changes look good. Consider adding comments for complex logic">>

\* the threshold of `changes.length > 5`
manyFilesThreshold == 5

\* a rule set whose fallback is appended unconditionally
generateSuggestions_AlwaysFallback(changes) ==
  (IF \E i \in DOMAIN changes :
        EndsWith(changes[i].file, L_ts) \/ EndsWith(changes[i].file, L_tsx)
   THEN <<S_typescript>> ELSE <<>>)
  \o (IF \E i \in DOMAIN changes :
           Includes(changes[i].file, L_test) \/ Includes(changes[i].file, L_spec)
      THEN <<S_coverage>> ELSE <<>>)
  \o (IF Len(changes) > manyFilesThreshold THEN <<S_smaller>> ELSE <<>>)
  \o <<S_fallback>>

\* generateSuggestions(changes)
generateSuggestions(changes) ==
  LET s1 == IF \E i \in DOMAIN changes :
                 EndsWith(changes[i].file, L_ts) \/ EndsWith(changes[i].file, L_tsx)
            THEN <<S_typescript>> ELSE <<>>
      s2 == s1 \o (IF \E i \in DOMAIN changes :
                        Includes(changes[i].file, L_test) \/ Includes(changes[i].file, L_spec)
                   THEN <<S_coverage>> ELSE <<>>)
      s3 == s2 \o (IF Len(changes) > manyFilesThreshold THEN <<S_smaller>> ELSE <<>>)
  IN  IF Len(s3) = 0 THEN <<S_fallback>> ELSE s3

RECURSIVE SumChanges(_)
\* changes.reduce((sum, change) => sum + change.changes, 0)
SumChanges(changes) ==
  IF changes = <<>> THEN 0 ELSE Head(changes).changes + SumChanges(Tail(changes))

RECURSIVE Distinct(_)
\* Array.from(new Set(array)): first occurrences, in insertion order
Distinct(seq) ==
  IF seq = <<>> THEN <<>>
  ELSE LET front == Distinct(SubSeq(seq, 1, Len(seq) - 1))
           last == seq[Len(seq)]
       IN  IF \E i \in DOMAIN front : front[i] = last THEN front ELSE Append(front, last)

\* generateReviewSummary(changes)
generateReviewSummary(changes) ==
  LET totalChanges == SumChanges(changes)
      fileTypes == Distinct([i \in DOMAIN changes |-> extname(changes[i].file)])
      joined == Join(fileTypes, <<", ">>)
  IN  <<"Reviewed ">> \o ToDecimal(Len(changes)) \o <<" files with ">>
        \o ToDecimal(totalChanges) \o <<" total changes. File types: ">>
        \o (IF joined # <<>> THEN joined ELSE <<"various">>)

\* the diff text the version-control system prints for a file
DiffText(file) == <<"diff --git ">> \o file

\* a FileDiff record
FileDiff(file, changes) == [file |-> file, diff |-> DiffText(file), changes |-> changes]

RECURSIVE sortByChanges(_)
\* diffs.sort((a, b) => b.changes - a.changes): Array.prototype.sort is
\* stable, so an element goes after every element that does not compare
\* after it
sortByChanges(diffs) ==
  IF diffs = <<>> THEN <<>>
  ELSE LET sorted == sortByChanges(SubSeq(diffs, 1, Len(diffs) - 1))
           x == diffs[Len(diffs)]
           before == {i \in DOMAIN sorted : sorted[i].changes >= x.changes}
           k == Cardinality(before)
       IN  SubSeq(sorted, 1, k) \o <<x>> \o SubSeq(sorted, k + 1, Len(sorted))

\* an Error object
Error(message) == [name |-> "Error", message |-> message]

\* the value of an error variable while nothing has been thrown
NoError == [name |-> "", message |-> <<>>]

\* a wrapper that loses the cause
collectionError_Unknown(cause) ==
  Error(<<"Failed to get file changes: ">> \o <<"Unknown error">>)

\* the catch block of getFileChangesInDirectory (every cause here is an Error)
collectionError(cause) ==
  Error(<<"Failed to get file changes: ">> \o cause.message)

\* `Directory ${rootDir} is not a git repository`
notRepoError(dir) == Error(<<"Directory ">> \o dir \o <<" is not a git repository">>)

\* summary.files.filter(file => !shouldExcludeFile(file.file, additionalExcludes))
filterFiles(files, additionalExcludes) ==
  LET keep(f) == ~shouldExcludeFile(f.file, additionalExcludes)
  IN  SelectSeq(files, keep)

\* a slice that takes every remaining file
batchEnd_Unbounded(i, n) == n

\* filesToProcess.slice(i, i + maxConcurrentDiffs) ends at this index
\* (i counts the files of earlier batches)
batchEnd(i, n) ==
  IF i + maxConcurrentDiffs < n THEN i + maxConcurrentDiffs ELSE n

\* a batch that is lost as a whole when one of its fetches fails
validDiffs_AllOrNothing(files, st, i, e) ==
  IF \E k \in (i + 1)..e : st[k] = "failed" THEN <<>>
  ELSE [k \in 1..(e - i) |-> FileDiff(files[i + k].file, files[i + k].changes)]

\* batchResults.filter(diff => diff !== null) for the batch (i, e]
validDiffs(files, st, i, e) ==
  LET ok(k) == st[k] = "ok"
      idx == SelectSeq([k \in 1..(e - i) |-> i + k], ok)
  IN  [k \in DOMAIN idx |-> FileDiff(files[idx[k]].file, files[idx[k]].changes)]

RECURSIVE SplitPath(_)
\* the segments of a path, split at "/"
SplitPath(p) ==
  IF \A i \in DOMAIN p : p[i] # "/" THEN <<p>>
  ELSE LET k == CHOOSE i \in DOMAIN p : p[i] = "/" /\ \A j \in 1..(i - 1) : p[j] # "/"
       IN  <<SubSeq(p, 1, k - 1)>> \o SplitPath(SubSeq(p, k + 1, Len(p)))

\* path.join(a, b) of relative paths without "..": the segments of both,
\* "." and empty segments dropped, joined by "/"
pathJoin(a, b) ==
  LET real(seg) == seg # <<>> /\ seg # <<".">>
      segs == SelectSeq(SplitPath(a \o <<"/">> \o b), real)
  IN  IF Len(segs) = 0 THEN <<".">> ELSE Join(segs, <<"/">>)

\* path.dirname(p) of a relative path without a trailing "/"
dirname(p) ==
  LET slashes == {i \in DOMAIN p : p[i] = "/"}
  IN  IF slashes = {} THEN <<".">>
      ELSE SubSeq(p, 1, (CHOOSE i \in slashes : \A j \in slashes : j <= i) - 1)

\* default outputPath and fileName of writeMarkdownReport
defaultOutputPath == <<".", "/", "code-reviews">>
defaultFileName(isoDate) == <<"code-review-">> \o isoDate \o <<".md">>

\* the document writeMarkdownReport writes
markdownContent(reviewContent, localeNow) ==
  <<"# Code Review Report\n\n**Date:** ">> \o localeNow
    \o <<"\n\n## Review Summary\n\n">> \o reviewContent
    \o <<"\n\n---\n*Generated by Code Review Agent*">>

\* the value writeMarkdownReport returns
reportSaved(fullPath) == <<"Markdown report saved to: ">> \o fullPath

\* the catch block of writeMarkdownReport
reportError(cause) == Error(<<"Failed to write markdown report: ">> \o cause.message)

\* suggestions.map(s => `- ${s}`)
bulletList(list) == [i \in DOMAIN list |-> <<"- ">> \o list[i]]

\* the backtick character, which a TLA+ string cannot hold
Backtick == <<"[backtick]">>

\* reportContent of performCodeReview
reportContent(summary, suggs, message) ==
  <<"## Changes Summary\n">> \o summary
    \o <<"\n\n## Suggestions\n">> \o Join(bulletList(suggs), <<"\n">>)
    \o <<"\n\n## Commit Message\n">> \o Backtick \o message \o Backtick

\* a catch block that loses the cause
reviewError_Unknown(cause) ==
  Error(<<"Failed to perform code review: ">> \o <<"Unknown error">>)

\* the catch block of performCodeReview
reviewError(cause) == Error(<<"Failed to perform code review: ">> \o cause.message)

\* the result of a review without changes
noChangesResult ==
  [changes |-> <<>>,
   summary |-> <<"No changes detected for review">>,
   suggestions |-> <<<<"No changes to review">>>>,
   commitMessage |-> <<>>,
   reportPath |-> <<>>]

\* the result of a review (optional fields hold zero or one value)
reviewResult(changes, summary, suggs, message, reportPath) ==
  [changes |-> changes, summary |-> summary, suggestions |-> suggs,
   commitMessage |-> <<message>>, reportPath |-> reportPath]

\* ------------------------------------------------------------------
\* Inputs
\* ------------------------------------------------------------------

\* file paths as the version-control system or a caller reports them
P_src_auth_ts == <<"s","r","c","/","a","u","t","h",".","t","s">>
P_README_md == <<"R","E","A","D","M","E",".","m","d">>
P_auth_test_ts == <<"s","r","c","/","a","u","t","h",".","t","e","s","t",".","t","s">>
P_bugfix_js == <<"l","i","b","/","b","u","g","f","i","x",".","j","s">>
P_docs_guide_md == <<"d","o","c","s","/","g","u","i","d","e",".","m","d">>
P_dist_bundle_js == <<"d","i","s","t","/","b","u","n","d","l","e",".","j","s">>
P_distance_ts == <<"s","r","c","/","d","i","s","t","a","n","c","e",".","t","s">>
P_gitignore == <<".","g","i","t","i","g","n","o","r","e">>
P_Makefile == <<"M","a","k","e","f","i","l","e">>
P_util_spec_tsx == <<"s","r","c","/","u","t","i","l",".","s","p","e","c",".","t","s","x">>
P_index_tsx == <<"i","n","d","e","x",".","t","s","x">>

\* all sequences without repetition of length at most n over a set
InjectiveSeqs(S, n) ==
  UNION {{s \in [1..k -> S] : \A i, j \in 1..k : i # j => s[i] # s[j]} : k \in 0..n}

MaxCommitChanges == 2
MaxScopeLen == 40

\* caller-supplied change records (changes and diff are optional)
CommitChangePool ==
  {[file |-> P_src_auth_ts, changes |-> 40],
   [file |-> P_README_md, changes |-> 2],
   [file |-> P_auth_test_ts],
   [file |-> P_bugfix_js, changes |-> 0, diff |-> <<>>],
   [file |-> P_util_spec_tsx, changes |-> 3],
   [file |-> P_Makefile, changes |-> 1]}

\* scopes: every prefix of a long scope name, "authentication" among them
LongScope == <<"a","u","t","h","e","n","t","i","c","a","t","i","o","n","-","a","n","d","-","s","e","s","s","i","o","n","-","m","a","n","a","g","e","m","e","n","t","-","l","a","y","e","r","-","x">>
ScopePool == {SubSeq(LongScope, 1, n) : n \in 0..MaxScopeLen}

MaxSuggestFiles == 8

\* files offered to generateSuggestions
SuggestFiles ==
  <<P_Makefile, P_README_md, P_bugfix_js, P_docs_guide_md, P_gitignore,
    P_dist_bundle_js, P_src_auth_ts, P_auth_test_ts, P_index_tsx, P_util_spec_tsx>>

\* the sub-list of SuggestFiles at the positions idx, in order, as FileDiffs
SuggestList(idx) ==
  LET keep(i) == i \in idx
      positions == SelectSeq([i \in DOMAIN SuggestFiles |-> i], keep)
  IN  [k \in DOMAIN positions |-> FileDiff(SuggestFiles[positions[k]], positions[k])]

SuggestInputs ==
  {SuggestList(idx) : idx \in SUBSET {i \in DOMAIN SuggestFiles : i <= MaxSuggestFiles}}

MaxSummaryLen == 3
ExtraFiles == 2

\* a GitFileStatus record of the diff summary
GitFileStatus(file, insertions, deletions) ==
  [file |-> file, changes |-> insertions + deletions,
   insertions |-> insertions, deletions |-> deletions]

\* changed files of a small working tree
SummaryPool ==
  {GitFileStatus(P_src_auth_ts, 30, 10),
   GitFileStatus(P_README_md, 2, 0),
   GitFileStatus(P_bugfix_js, 1, 1),
   GitFileStatus(P_dist_bundle_js, 40, 0),
   GitFileStatus(P_distance_ts, 4, 3),
   GitFileStatus(P_auth_test_ts, 25, 15)}

\* the i-th changed file of a large working tree
LargeFile(i) ==
  GitFileStatus((IF i = 5 THEN X_coverage ELSE <<"p","k","g">>)
                   \o <<"/","f">> \o ToDecimal(i) \o L_ts,
                (i * 3) % 4, 0)

\* working trees with more changed files than one batch holds
LargeSummaries ==
  {[i \in 1..n |-> LargeFile(i)] :
     n \in (maxConcurrentDiffs + 2)..(maxConcurrentDiffs + 1 + ExtraFiles)}

SmallSummaries == InjectiveSeqs(SummaryPool, MaxSummaryLen)

\* caller-supplied excludePatterns
X_src == <<"s","r","c","/">>
X_md == <<".","m","d">>
ExcludeChoices == {{}, {X_src}, {X_md}, {<<>>}}

\* directories a caller may name and what the file system holds there
RootDirs == {<<"../my-agent">>, <<"/tmp/scratch">>, <<"/no/such/dir">>}

DirKind(dir) ==
  CASE dir = <<"../my-agent">> -> "repo"
    [] dir = <<"/tmp/scratch">> -> "notRepo"
    [] dir = <<"/no/such/dir">> -> "missing"

\* failures the version-control client reports
constructError == Error(<<"Cannot use simple-git on a directory that does not exist">>)
GitErrors == {Error(<<"spawn git ENOENT">>), Error(<<"fatal: unable to read tree">>)}

MaxReviewFiles == 2

\* the clock: ISO calendar date and locale timestamp
IsoDates == {<<"2026-11-02">>}
LocaleNow == <<"11/2/2026, 9:00:00 AM">>

\* the report directory and an earlier report, as the file system may hold them
reportDir == dirname(pathJoin(defaultOutputPath, defaultFileName(<<"2026-11-02">>)))
oldReport == pathJoin(defaultOutputPath, defaultFileName(<<"2026-11-02">>))
FileSystems ==
  {[dirs |-> {}, files |-> <<>>],
   [dirs |-> {reportDir}, files |-> <<>>],
   [dirs |-> {reportDir}, files |-> [p \in {oldReport} |-> <<"earlier report">>]]}

\* failures of the file system
IoErrors == {Error(<<"EACCES: permission denied">>), Error(<<"ENOSPC: no space left on device">>)}

\* ------------------------------------------------------------------
\* State
\* ------------------------------------------------------------------

VARIABLES
  cm_pc,            \* generateCommitMessage: "start" | "done"
  cm_changes,       \* its argument changes
  cm_commitType,    \* its argument commitType (<<>> when not supplied)
  cm_scope,         \* its argument scope (<<>> when not supplied)
  detectedType,     \* its local detectedType ("" before it is computed)
  commitMessage     \* the returned message

commitVars == <<cm_pc, cm_changes, cm_commitType, cm_scope, detectedType, commitMessage>>

VARIABLES
  sg_pc,            \* generateSuggestions: "start" | "done"
  sg_changes,       \* its argument changes
  suggestions       \* the returned list

suggestVars == <<sg_pc, sg_changes, suggestions>>

VARIABLES
  gc_pc,            \* getFileChangesInDirectory: "start" | "checked" |
                    \*   "awaiting" (Promise.all of a batch) | "done" | "failed"
  rootDir,          \* its argument rootDir
  excludePatterns,  \* its argument excludePatterns
  worktree,         \* the files the version-control system would report
  isRepo,           \* local isRepo: "unset" | "true" | "false"
  gitCalls,         \* the kinds of request sent to the version-control system
  filesToProcess,   \* local filesToProcess
  fetch,            \* per file of filesToProcess: "idle" | "inflight" | "ok" | "failed"
  batchStart,       \* number of files in the batches before the current one
  diffs,            \* local diffs
  warned,           \* files reported by console.warn
  gc_result,        \* the returned array
  gc_error          \* the thrown error

collectVars == <<gc_pc, rootDir, excludePatterns, worktree, isRepo, gitCalls, filesToProcess,
                 fetch, batchStart, diffs, warned, gc_result, gc_error>>

VARIABLES
  rv_pc,            \* performCodeReview: "collecting" | "writing" | "returned" | "failed"
  outputReport,     \* its argument outputReport
  rv_commitMessage, \* local commitMessage
  rv_summary,       \* local summary
  rv_suggestions,   \* local suggestions
  rv_result,        \* the returned CodeReviewResult (<<>> while none is returned)
  rv_error,         \* the thrown error
  wr_pc,            \* writeMarkdownReport: "access" | "mkdir" | "writeFile" | "done" | "failed"
  wr_fullPath,      \* its local fullPath
  wr_content,       \* its argument reviewContent
  wr_error,         \* the error it throws
  today,            \* the ISO date of the clock
  fs_dirs,          \* directories that exist
  fs_files,         \* files that exist, with their content
  fs_dirs0          \* the directories that existed when the review was called

reviewVars == <<rv_pc, outputReport, rv_commitMessage, rv_summary, rv_suggestions,
                rv_result, rv_error, wr_pc, wr_fullPath, wr_content, wr_error,
                today, fs_dirs, fs_files, fs_dirs0>>

vars == <<commitVars, suggestVars, collectVars, reviewVars>>

otherVars == <<commitVars, suggestVars, reviewVars>>

ReviewIdle ==
  /\ rv_pc = "idle" /\ outputReport = FALSE /\ rv_commitMessage = <<>>
  /\ rv_summary = <<>> /\ rv_suggestions = <<>> /\ rv_result = <<>>
  /\ rv_error = NoError /\ wr_pc = "idle" /\ wr_fullPath = <<>> /\ wr_content = <<>>
  /\ wr_error = NoError /\ today = <<>> /\ fs_dirs = {} /\ fs_files = <<>>
  /\ fs_dirs0 = {}

CollectIdle ==
  /\ gc_pc = "idle" /\ rootDir = <<>> /\ excludePatterns = {} /\ worktree = <<>>
  /\ isRepo = "unset" /\ gitCalls = {} /\ filesToProcess = <<>> /\ fetch = <<>>
  /\ batchStart = 0 /\ diffs = <<>> /\ warned = {} /\ gc_result = <<>>
  /\ gc_error = NoError

CommitIdle ==
  /\ cm_pc = "idle" /\ cm_changes = <<>> /\ cm_commitType = <<>> /\ cm_scope = <<>>
  /\ detectedType = "" /\ commitMessage = <<>>

SuggestIdle ==
  /\ sg_pc = "idle" /\ sg_changes = <<>> /\ suggestions = <<>>

\* ------------------------------------------------------------------
\* generateCommitMessage as a tool call
\* ------------------------------------------------------------------

InitCommit ==
  /\ cm_pc = "start"
  /\ cm_changes \in InjectiveSeqs(CommitChangePool, MaxCommitChanges)
  /\ cm_commitType \in {<<>>} \cup {<<t>> : t \in CommitTypes}
  /\ cm_scope \in {<<>>} \cup {<<s>> : s \in ScopePool}
  /\ detectedType = ""
  /\ commitMessage = <<>>
  /\ SuggestIdle
  /\ CollectIdle
  /\ ReviewIdle

GenerateCommitMessage ==
  /\ cm_pc = "start"
  /\ cm_pc' = "done"
  /\ detectedType' = IF Len(cm_changes) = 0 THEN "" ELSE detectCommitType(cm_changes)
  /\ commitMessage' = generateCommitMessage(cm_changes, cm_commitType, cm_scope)
  /\ UNCHANGED <<cm_changes, cm_commitType, cm_scope>>
  /\ UNCHANGED <<suggestVars, collectVars, reviewVars>>

NextCommit == GenerateCommitMessage

SpecCommit == InitCommit /\ [][NextCommit]_vars

\* ------------------------------------------------------------------
\* generateSuggestions applied to a change list
\* ------------------------------------------------------------------

InitSuggest ==
  /\ sg_pc = "start"
  /\ sg_changes \in SuggestInputs
  /\ suggestions = <<>>
  /\ CommitIdle
  /\ CollectIdle
  /\ ReviewIdle

GenerateSuggestions ==
  /\ sg_pc = "start"
  /\ sg_pc' = "done"
  /\ suggestions' = generateSuggestions(sg_changes)
  /\ UNCHANGED sg_changes
  /\ UNCHANGED <<commitVars, collectVars, reviewVars>>

NextSuggest == GenerateSuggestions

SpecSuggest == InitSuggest /\ [][NextSuggest]_vars

\* ------------------------------------------------------------------
\* getFileChangesInDirectory
\* ------------------------------------------------------------------

CollectLocals ==
  /\ gc_pc = "start"
  /\ isRepo = "unset" /\ gitCalls = {} /\ filesToProcess = <<>> /\ fetch = <<>>
  /\ batchStart = 0 /\ diffs = <<>> /\ warned = {} /\ gc_result = <<>>
  /\ gc_error = NoError

InitCollect ==
  /\ rootDir \in RootDirs
  /\ \/ worktree \in SmallSummaries /\ excludePatterns \in ExcludeChoices
     \/ worktree \in LargeSummaries /\ excludePatterns = {}
  /\ CollectLocals
  /\ CommitIdle
  /\ SuggestIdle
  /\ ReviewIdle

\* the catch block: every throw inside the try ends the call with the wrapper
Throw(cause) ==
  /\ gc_pc' = "failed"
  /\ gc_error' = collectionError(cause)

\* all diff fetches of the batch starting after `start` are issued in the
\* same turn (batch.map); with no batch left the sorted array is returned
StartBatchOrReturn(files, st, start, acc) ==
  IF start < Len(files)
  THEN /\ gc_pc' = "awaiting"
       /\ fetch' = [k \in DOMAIN files |->
                      IF k > start /\ k <= batchEnd(start, Len(files))
                      THEN "inflight" ELSE st[k]]
       /\ batchStart' = start
       /\ diffs' = acc
       /\ gitCalls' = gitCalls \cup {"diffSummary", "diff"}
       /\ UNCHANGED gc_result
  ELSE /\ gc_pc' = "done"
       /\ fetch' = st
       /\ batchStart' = start
       /\ diffs' = sortByChanges(acc)
       /\ gc_result' = sortByChanges(acc)
       /\ gitCalls' = gitCalls \cup {"diffSummary"}

\* simpleGit(rootDir) rejects a directory that does not exist
ConstructFails ==
  /\ gc_pc = "start"
  /\ DirKind(rootDir) = "missing"
  /\ Throw(constructError)
  /\ UNCHANGED <<isRepo, rootDir, excludePatterns, worktree, gitCalls, filesToProcess, fetch,
                 batchStart, diffs, warned, gc_result>>
  /\ UNCHANGED otherVars

\* git.checkIsRepo() answers true
CheckIsRepoTrue ==
  /\ gc_pc = "start"
  /\ DirKind(rootDir) = "repo"
  /\ gc_pc' = "checked"
  /\ gitCalls' = gitCalls \cup {"checkIsRepo"}
  /\ isRepo' = "true"
  /\ UNCHANGED <<rootDir, excludePatterns, worktree, filesToProcess, fetch,
                 batchStart, diffs, warned, gc_result, gc_error>>
  /\ UNCHANGED otherVars

\* git.checkIsRepo() answers false
CheckIsRepoFalse ==
  /\ gc_pc = "start"
  /\ DirKind(rootDir) = "notRepo"
  /\ gitCalls' = gitCalls \cup {"checkIsRepo"}
  /\ Throw(notRepoError(rootDir))
  /\ isRepo' = "false"
  /\ UNCHANGED <<rootDir, excludePatterns, worktree, filesToProcess, fetch,
                 batchStart, diffs, warned, gc_result>>
  /\ UNCHANGED otherVars

\* git.checkIsRepo() itself fails
CheckIsRepoThrows ==
  /\ gc_pc = "start"
  /\ DirKind(rootDir) # "missing"
  /\ gitCalls' = gitCalls \cup {"checkIsRepo"}
  /\ \E cause \in GitErrors : Throw(cause)
  /\ UNCHANGED <<isRepo, rootDir, excludePatterns, worktree, filesToProcess, fetch,
                 batchStart, diffs, warned, gc_result>>
  /\ UNCHANGED otherVars

\* git.diffSummary() answers: filter, split into batches, start the first
DiffSummaryReturns ==
  /\ gc_pc = "checked"
  /\ LET files == filterFiles(worktree, excludePatterns)
     IN  /\ filesToProcess' = files
         /\ StartBatchOrReturn(files, [k \in DOMAIN files |-> "idle"], 0, <<>>)
  /\ UNCHANGED <<isRepo, rootDir, excludePatterns, worktree, warned, gc_error>>
  /\ UNCHANGED otherVars

\* git.diffSummary() fails
DiffSummaryThrows ==
  /\ gc_pc = "checked"
  /\ gitCalls' = gitCalls \cup {"diffSummary"}
  /\ \E cause \in GitErrors : Throw(cause)
  /\ UNCHANGED <<isRepo, rootDir, excludePatterns, worktree, filesToProcess, fetch,
                 batchStart, diffs, warned, gc_result>>
  /\ UNCHANGED otherVars

\* git.diff(["--", file]) of one file answers
DiffReturns(k) ==
  /\ gc_pc = "awaiting"
  /\ fetch[k] = "inflight"
  /\ fetch' = [fetch EXCEPT ![k] = "ok"]
  /\ UNCHANGED <<isRepo, gc_pc, rootDir, excludePatterns, worktree, gitCalls, filesToProcess,
                 batchStart, diffs, warned, gc_result, gc_error>>
  /\ UNCHANGED otherVars

\* git.diff(["--", file]) of one file fails: warn and yield null
DiffThrows(k) ==
  /\ gc_pc = "awaiting"
  /\ fetch[k] = "inflight"
  /\ fetch' = [fetch EXCEPT ![k] = "failed"]
  /\ warned' = warned \cup {filesToProcess[k].file}
  /\ UNCHANGED <<isRepo, gc_pc, rootDir, excludePatterns, worktree, gitCalls, filesToProcess,
                 batchStart, diffs, gc_result, gc_error>>
  /\ UNCHANGED otherVars

\* Promise.all of the batch resolves: push the valid diffs, go on with the
\* next batch or sort and return
BatchCompletes ==
  /\ gc_pc = "awaiting"
  /\ \A k \in DOMAIN fetch : fetch[k] # "inflight"
  /\ LET e == batchEnd(batchStart, Len(filesToProcess))
     IN  StartBatchOrReturn(filesToProcess, fetch, e,
                            diffs \o validDiffs(filesToProcess, fetch, batchStart, e))
  /\ UNCHANGED <<isRepo, rootDir, excludePatterns, worktree, filesToProcess, warned, gc_error>>
  /\ UNCHANGED otherVars

NextCollect ==
  \/ ConstructFails
  \/ CheckIsRepoTrue
  \/ CheckIsRepoFalse
  \/ CheckIsRepoThrows
  \/ DiffSummaryReturns
  \/ DiffSummaryThrows
  \/ \E k \in DOMAIN fetch : DiffReturns(k)
  \/ \E k \in DOMAIN fetch : DiffThrows(k)
  \/ BatchCompletes

SpecCollect == InitCollect /\ [][NextCollect]_vars

\* ------------------------------------------------------------------
\* performCodeReview (with writeMarkdownReport and ensureDirectoryExists)
\* ------------------------------------------------------------------

InitReview ==
  /\ rootDir \in RootDirs
  /\ worktree \in InjectiveSeqs(SummaryPool, MaxReviewFiles)
  /\ excludePatterns \in ExcludeChoices
  /\ CollectLocals
  /\ rv_pc = "collecting"
  /\ outputReport \in BOOLEAN
  /\ today \in IsoDates
  /\ \E fs \in FileSystems : fs_dirs = fs.dirs /\ fs_files = fs.files /\ fs_dirs0 = fs.dirs
  /\ rv_commitMessage = <<>> /\ rv_summary = <<>> /\ rv_suggestions = <<>>
  /\ rv_result = <<>> /\ rv_error = NoError
  /\ wr_pc = "idle" /\ wr_fullPath = <<>> /\ wr_content = <<>> /\ wr_error = NoError
  /\ CommitIdle
  /\ SuggestIdle

\* getFileChangesInDirectory threw: the catch block wraps its error
ReviewCollectionFailed ==
  /\ rv_pc = "collecting"
  /\ gc_pc = "failed"
  /\ rv_pc' = "failed"
  /\ rv_error' = reviewError(gc_error)
  /\ UNCHANGED <<outputReport, rv_commitMessage, rv_summary, rv_suggestions, rv_result,
                 wr_pc, wr_fullPath, wr_content, wr_error, today, fs_dirs, fs_files, fs_dirs0>>
  /\ UNCHANGED <<commitVars, suggestVars, collectVars>>

\* no changes: the short-circuit result
ReviewNoChanges ==
  /\ rv_pc = "collecting"
  /\ gc_pc = "done"
  /\ Len(gc_result) = 0
  /\ rv_pc' = "returned"
  /\ rv_result' = <<noChangesResult>>
  /\ UNCHANGED <<outputReport, rv_commitMessage, rv_summary, rv_suggestions, rv_error,
                 wr_pc, wr_fullPath, wr_content, wr_error, today, fs_dirs, fs_files, fs_dirs0>>
  /\ UNCHANGED <<commitVars, suggestVars, collectVars>>

\* commit message, summary and suggestions; then either return or call
\* writeMarkdownReport, which runs up to its fs.access request
ReviewSynthesize ==
  /\ rv_pc = "collecting"
  /\ gc_pc = "done"
  /\ Len(gc_result) > 0
  /\ LET commitMessageChanges ==
           [i \in DOMAIN gc_result |-> [file |-> gc_result[i].file,
                                        changes |-> gc_result[i].changes,
                                        diff |-> gc_result[i].diff]]
         message == generateCommitMessage(commitMessageChanges, <<>>, <<>>)
         summary == generateReviewSummary(gc_result)
         suggs == generateSuggestions(gc_result)
     IN  /\ rv_commitMessage' = message
         /\ rv_summary' = summary
         /\ rv_suggestions' = suggs
         /\ IF outputReport
            THEN /\ rv_pc' = "writing"
                 /\ wr_pc' = "access"
                 /\ wr_content' = reportContent(summary, suggs, message)
                 /\ wr_fullPath' = pathJoin(defaultOutputPath, defaultFileName(today))
                 /\ UNCHANGED rv_result
            ELSE /\ rv_pc' = "returned"
                 /\ rv_result' = <<reviewResult(gc_result, summary, suggs, message, <<>>)>>
                 /\ UNCHANGED <<wr_pc, wr_content, wr_fullPath>>
  /\ UNCHANGED <<outputReport, rv_error, wr_error, today, fs_dirs, fs_files, fs_dirs0>>
  /\ UNCHANGED <<commitVars, suggestVars, collectVars>>

\* ensureDirectoryExists: fs.access(dir) succeeds, fs.writeFile is requested
AccessSucceeds ==
  /\ wr_pc = "access"
  /\ dirname(wr_fullPath) \in fs_dirs
  /\ wr_pc' = "writeFile"
  /\ UNCHANGED <<rv_pc, outputReport, rv_commitMessage, rv_summary, rv_suggestions,
                 rv_result, rv_error, wr_fullPath, wr_content, wr_error, today,
                 fs_dirs, fs_files, fs_dirs0>>
  /\ UNCHANGED <<commitVars, suggestVars, collectVars>>

\* ensureDirectoryExists: fs.access(dir) fails, fs.mkdir is requested
AccessFails ==
  /\ wr_pc = "access"
  /\ dirname(wr_fullPath) \notin fs_dirs
  /\ wr_pc' = "mkdir"
  /\ UNCHANGED <<rv_pc, outputReport, rv_commitMessage, rv_summary, rv_suggestions,
                 rv_result, rv_error, wr_fullPath, wr_content, wr_error, today,
                 fs_dirs, fs_files, fs_dirs0>>
  /\ UNCHANGED <<commitVars, suggestVars, collectVars>>

\* fs.mkdir(dir, {recursive: true}) succeeds, fs.writeFile is requested
MkdirSucceeds ==
  /\ wr_pc = "mkdir"
  /\ fs_dirs' = fs_dirs \cup {dirname(wr_fullPath)}
  /\ wr_pc' = "writeFile"
  /\ UNCHANGED <<rv_pc, outputReport, rv_commitMessage, rv_summary, rv_suggestions,
                 rv_result, rv_error, wr_fullPath, wr_content, wr_error, today,
                 fs_files, fs_dirs0>>
  /\ UNCHANGED <<commitVars, suggestVars, collectVars>>

\* an I/O failure inside writeMarkdownReport: its catch block wraps the
\* cause, and the catch block of performCodeReview wraps that
WriteThrows(cause) ==
  /\ wr_pc' = "failed"
  /\ wr_error' = reportError(cause)
  /\ rv_pc' = "failed"
  /\ rv_error' = reviewError(reportError(cause))
  /\ UNCHANGED <<outputReport, rv_commitMessage, rv_summary, rv_suggestions,
                 rv_result, wr_fullPath, wr_content, today, fs_dirs, fs_files, fs_dirs0>>
  /\ UNCHANGED <<commitVars, suggestVars, collectVars>>

\* fs.mkdir fails
MkdirFails ==
  /\ wr_pc = "mkdir"
  /\ \E cause \in IoErrors : WriteThrows(cause)

\* fs.writeFile fails
WriteFileFails ==
  /\ wr_pc = "writeFile"
  /\ \E cause \in IoErrors : WriteThrows(cause)

\* fs.writeFile succeeds: writeMarkdownReport returns its confirmation and
\* performCodeReview returns the result
WriteFileSucceeds ==
  /\ wr_pc = "writeFile"
  /\ fs_files' = [p \in DOMAIN fs_files \cup {wr_fullPath} |->
                    IF p = wr_fullPath THEN markdownContent(wr_content, LocaleNow)
                    ELSE fs_files[p]]
  /\ wr_pc' = "done"
  /\ rv_pc' = "returned"
  /\ rv_result' = <<reviewResult(gc_result, rv_summary, rv_suggestions, rv_commitMessage,
                                 <<reportSaved(wr_fullPath)>>)>>
  /\ UNCHANGED <<outputReport, rv_commitMessage, rv_summary, rv_suggestions, rv_error,
                 wr_fullPath, wr_content, wr_error, today, fs_dirs, fs_dirs0>>
  /\ UNCHANGED <<commitVars, suggestVars, collectVars>>

Next ==
  \/ ConstructFails
  \/ CheckIsRepoTrue
  \/ CheckIsRepoFalse
  \/ CheckIsRepoThrows
  \/ DiffSummaryReturns
  \/ DiffSummaryThrows
  \/ \E k \in DOMAIN fetch : DiffReturns(k)
  \/ \E k \in DOMAIN fetch : DiffThrows(k)
  \/ BatchCompletes
  \/ ReviewCollectionFailed
  \/ ReviewNoChanges
  \/ ReviewSynthesize
  \/ AccessSucceeds
  \/ AccessFails
  \/ MkdirSucceeds
  \/ MkdirFails
  \/ WriteFileFails
  \/ WriteFileSucceeds

Spec == InitReview /\ [][Next]_vars

\* ------------------------------------------------------------------
\* Properties of generateCommitMessage (SpecCommit)
\* ------------------------------------------------------------------

\* the composition before truncation, for the arguments of the current call
Untruncated == composeCommitMessage(cm_changes, cm_commitType, cm_scope)

\* C2: every returned commit message has at most 72 characters, and when the
\* untruncated composition `<type>(<scope>): <body>` is longer than 72 the
\* returned message ends with "..." and is a prefix of the composition
\* followed by "..."
C2_LengthBound ==
  cm_pc = "done" =>
     /\ Len(commitMessage) <= 72
     /\ (Len(cm_changes) > 0 /\ Len(Untruncated) > 72) =>
          /\ EndsWith(commitMessage, L_ellipsis)
          /\ \E k \in 0..Len(Untruncated) :
               commitMessage = SubSeq(Untruncated, 1, k) \o L_ellipsis

\* a call whose composition had to be truncated
C2_Witness ==
  /\ cm_pc = "done"
  /\ Len(cm_changes) > 0
  /\ Len(Untruncated) > 72
  /\ Len(commitMessage) = 72

\* the type a message starts with: the characters before "(" or ":"
HasTypePrefix(msg, type) ==
  \/ StartsWith(msg, CommitTypeChars[type] \o <<"(">>)
  \/ StartsWith(msg, CommitTypeChars[type] \o <<":">>)

M_docs_scenario == <<"d","o","c","s","(","a","u","t","h","e","n","t","i","c","a","t","i","o","n",")",":"," ","u","p","d","a","t","e"," ","a","u","t","h"," ","w","i","t","h"," ","2"," ","f","i","l","e","s"," ","c","h","a","n","g","e","d">>

\* C3: with a non-empty change list the message's type is the caller's
\* commitType when supplied and the detected type otherwise; the scenario
\* [src/auth.ts, README.md], no commitType, scope "authentication" gives
\* "docs(authentication): update auth with 2 files changed"
C3_TypeSelection ==
  (cm_pc = "done" /\ Len(cm_changes) > 0) =>
     /\ HasTypePrefix(commitMessage,
                      IF cm_commitType # <<>> THEN cm_commitType[1] ELSE detectedType)
     /\ ( /\ [i \in DOMAIN cm_changes |-> cm_changes[i].file] = <<P_src_auth_ts, P_README_md>>
          /\ cm_commitType = <<>>
          /\ cm_scope = <<SubSeq(LongScope, 1, 14)>> )
        => commitMessage = M_docs_scenario

\* the ordered rules of the commit-type detection as the claim states them
FirstMatchType(changes) ==
  IF \E i \in DOMAIN changes :
       Includes(changes[i].file, L_test_dot) \/ Includes(changes[i].file, L_spec_dot)
  THEN "test"
  ELSE IF \E i \in DOMAIN changes :
            Includes(changes[i].file, L_README) \/ Includes(changes[i].file, L_docs_slash)
  THEN "docs"
  ELSE IF \E i \in DOMAIN changes :
            Includes(changes[i].file, L_fix) \/ Includes(changes[i].file, L_bug)
  THEN "fix"
  ELSE "feat"

\* C10: the detected commit type is the first matching rule of: a path
\* containing ".test." or ".spec." gives "test", else a path containing
\* "README" or "docs/" gives "docs", else a path containing "fix" or "bug"
\* gives "fix", else "feat"
C10_FirstMatchWins ==
  (cm_pc = "done" /\ Len(cm_changes) > 0) => detectedType = FirstMatchType(cm_changes)

\* ------------------------------------------------------------------
\* Properties of generateSuggestions (SpecSuggest)
\* ------------------------------------------------------------------

HasTypeScriptFile(changes) ==
  \E i \in DOMAIN changes :
    EndsWith(changes[i].file, L_ts) \/ EndsWith(changes[i].file, L_tsx)

HasTestLikePath(changes) ==
  \E i \in DOMAIN changes :
    Includes(changes[i].file, L_test) \/ Includes(changes[i].file, L_spec)

Occurs(list, x) == \E i \in DOMAIN list : list[i] = x

\* C8: the suggestion list is never empty; the fallback is present exactly
\* when none of the three rules triggers; triggered suggestions appear in
\* rule order (TypeScript, test-like path, more than 5 files); 7 changed
\* files give the "smaller, focused commits" suggestion
C8_Suggestions ==
  sg_pc = "done" =>
    LET ts == HasTypeScriptFile(sg_changes)
        tst == HasTestLikePath(sg_changes)
        many == Len(sg_changes) > 5
        expected == (IF ts THEN <<S_typescript>> ELSE <<>>)
                      \o (IF tst THEN <<S_coverage>> ELSE <<>>)
                      \o (IF many THEN <<S_smaller>> ELSE <<>>)
    IN  /\ Len(suggestions) >= 1
        /\ Occurs(suggestions, S_fallback) <=> (~ts /\ ~tst /\ ~many)
        /\ (ts \/ tst \/ many) => suggestions = expected
        /\ Len(sg_changes) = 7 => Occurs(suggestions, S_smaller)

\* seven files, a TypeScript file and a test among them: three suggestions
C8_Witness ==
  /\ sg_pc = "done"
  /\ Len(sg_changes) = 7
  /\ suggestions = <<S_typescript, S_coverage, S_smaller>>

\* ------------------------------------------------------------------
\* Properties of getFileChangesInDirectory (SpecCollect)
\* ------------------------------------------------------------------

\* position of a path in the diff summary
ReportedAt(file) == CHOOSE k \in DOMAIN worktree : worktree[k].file = file

MatchesPattern(file, patterns) ==
  \E pat \in patterns : Includes(file, pat) \/ StartsWith(file, pat)

\* C1: the returned sequence holds no file whose path contains or starts
\* with a built-in or caller-supplied pattern, and is ordered by change
\* count descending, files of equal change count in reported order
C1_ExcludedAndSorted ==
  gc_pc = "done" =>
    /\ \A i \in DOMAIN gc_result :
         ~MatchesPattern(gc_result[i].file, EXCLUDED_FILES \cup excludePatterns)
    /\ \A i, j \in DOMAIN gc_result :
         i < j => /\ gc_result[i].changes >= gc_result[j].changes
                  /\ gc_result[i].changes = gc_result[j].changes
                       => ReportedAt(gc_result[i].file) < ReportedAt(gc_result[j].file)

\* a file was excluded, the sort moved a file forward and kept a tie in order
C1_Witness ==
  /\ gc_pc = "done"
  /\ \E k \in DOMAIN worktree : MatchesPattern(worktree[k].file, EXCLUDED_FILES)
  /\ \E i, j \in DOMAIN gc_result :
       i < j /\ ReportedAt(gc_result[i].file) > ReportedAt(gc_result[j].file)
  /\ \E i, j \in DOMAIN gc_result :
       i < j /\ gc_result[i].changes = gc_result[j].changes

FetchOk(file) ==
  \E k \in DOMAIN filesToProcess : filesToProcess[k].file = file /\ fetch[k] = "ok"

InResult(file) == \E i \in DOMAIN gc_result : gc_result[i].file = file

\* C4: failed per-file diff fetches never make the call fail; the call
\* returns exactly the non-excluded files whose fetch succeeded, each once
C4_PartialFailure ==
  /\ (\E k \in DOMAIN fetch : fetch[k] = "failed") => (gc_pc # "failed" /\ gc_error = NoError)
  /\ gc_pc = "done" =>
       /\ gc_error = NoError
       /\ \A k \in DOMAIN worktree :
            InResult(worktree[k].file) <=>
              /\ ~MatchesPattern(worktree[k].file, EXCLUDED_FILES \cup excludePatterns)
              /\ FetchOk(worktree[k].file)
       /\ \A i, j \in DOMAIN gc_result : gc_result[i].file = gc_result[j].file => i = j

\* a returned call in which one fetch failed and another succeeded
C4_Witness ==
  /\ gc_pc = "done"
  /\ \E k \in DOMAIN fetch : fetch[k] = "failed"
  /\ Len(gc_result) >= 1
  /\ warned # {}

\* the directory is not a repository, as the claim lists the cases
NotARepositoryCase == isRepo = "false" \/ DirKind(rootDir) = "missing"

\* the kind a caller can read off a thrown error
ErrorKind(e) ==
  IF e.name = "NotARepository" \/ Includes(e.message, <<" is not a git repository">>)
  THEN "NotARepository"
  ELSE "CollectionFailed"

NoSummaryOrDiffRequested == gitCalls \cap {"diffSummary", "diff"} = {}

CollectPrefix == <<"Failed to get file changes: ">>

BatchOf(k) == (k - 1) \div 10

InFlight == {k \in DOMAIN fetch : fetch[k] = "inflight"}

\* C9: at most 10 fetches are in flight; no fetch of a later batch starts
\* before every fetch of the earlier batches has completed; diffs holds the
\* successful files of the completed batches in file order
C9_BatchedFetches ==
  /\ Cardinality(InFlight) <= 10
  /\ \A i, j \in DOMAIN fetch :
       (BatchOf(j) < BatchOf(i) /\ fetch[i] # "idle") => fetch[j] \in {"ok", "failed"}
  /\ gc_pc = "awaiting" =>
       LET ok(k) == fetch[k] = "ok"
           done == SelectSeq([k \in 1..batchStart |-> k], ok)
       IN  [i \in DOMAIN diffs |-> diffs[i].file]
             = [i \in DOMAIN done |-> filesToProcess[done[i]].file]

\* the second batch is in flight after a first batch with a failed fetch
C9_Witness ==
  /\ gc_pc = "awaiting"
  /\ batchStart = 10
  /\ InFlight # {}
  /\ \E k \in 1..10 : fetch[k] = "failed"
  /\ Len(diffs) >= 1

\* ------------------------------------------------------------------
\* Properties of performCodeReview (Spec)
\* ------------------------------------------------------------------

ReviewPrefix == <<"Failed to perform code review: ">>

\* C6: a failed sub-step ends the review with the wrapping error, which
\* carries the cause's message, and without any result; a result is
\* returned only when every executed sub-step succeeded
C6_NoPartialResult ==
  /\ (gc_pc = "failed" \/ wr_pc = "failed") => (rv_pc # "returned" /\ rv_result = <<>>)
  /\ rv_pc = "failed" =>
       /\ rv_result = <<>>
       /\ rv_error.name = "Error"
       /\ \/ gc_pc = "failed" /\ rv_error.message = ReviewPrefix \o gc_error.message
          \/ wr_pc = "failed" /\ rv_error.message = ReviewPrefix \o wr_error.message
  /\ rv_pc = "returned" =>
       /\ Len(rv_result) = 1
       /\ gc_pc = "done"
       /\ wr_pc \in {"idle", "done"}
       /\ rv_error = NoError

\* the report could not be written although the review was already composed
C6_Witness ==
  /\ rv_pc = "failed"
  /\ wr_pc = "failed"
  /\ rv_commitMessage # <<>>
  /\ rv_summary # <<>>

\* C7: with outputReport, changes and no report directory beforehand, the
\* returned review leaves the directory and a report file that contains the
\* summary and the commit message, and reportPath is that file's path
C7_ReportWritten ==
  (rv_pc = "returned" /\ outputReport /\ Len(gc_result) > 0
     /\ dirname(wr_fullPath) \notin fs_dirs0) =>
    /\ dirname(wr_fullPath) \in fs_dirs
    /\ \E p \in DOMAIN fs_files :
         /\ Includes(fs_files[p], rv_summary)
         /\ Includes(fs_files[p], rv_commitMessage)
         /\ rv_result[1].reportPath = <<p>>

====
